---- MODULE Spec2Model ----
(***************************************************************************)
(* GroundEngine (src/ground_engine.py): classification of an ecliptic      *)
(* longitude against the 13 constellation boundaries, and the proportional *)
(* Dasha / Bhukti timeline built from the Moon's longitude.                *)
(*                                                                         *)
(* Fixed point.  The source computes in floating-point degrees and years.  *)
(* Here a longitude is an integer number of grid units, Res units to       *)
(* 0.01 degree, so that every boundary (a multiple of 0.1 degree) and both *)
(* thresholds (0.01 and 0.5 degree) are exact.  A duration in years is an  *)
(* integer number of tenths of a year (the precision of dasha_years), and  *)
(* an instant is an integer number of minutes; a timedelta, which Python   *)
(* rounds to the microsecond, is rounded to the minute.                    *)
(***************************************************************************)
EXTENDS Integers, Sequences, FiniteSets, TLC

VARIABLES pc, lon, result, moon_lon, birth, dasha, bhuktis, query_date,
          current, provider, chart, events, score, scan

vars == <<pc, lon, result, moon_lon, birth, dasha, bhuktis, query_date,
          current, provider, chart, events, score, scan>>

\* the variables of calculate_chart
chart_vars == <<provider, chart>>

\* the variables of score_candidate and scan_window
scan_vars == <<events, score, scan>>

None == [none |-> TRUE]

(***************************************************************************)
(* Bounds of the model.                                                    *)
(***************************************************************************)
\* grid units per 0.01 degree
Res == 2
\* raw longitudes range over [-MaxTurns*360, (MaxTurns+1)*360)
MaxTurns == 1
\* birth instants are 0 .. MaxBirthSteps steps of BirthStep minutes
MaxBirthSteps == 1
\* a list of life events has at most MaxEvents events
MaxEvents == 2
\* window_hours is 1 .. MaxWindowHalfHours half hours
MaxWindowHalfHours == 2

(***************************************************************************)
(* Units.                                                                  *)
(***************************************************************************)
\* a longitude given in tenths of a degree, in grid units
Tenths(t) == t * 10 * Res

\* 360 degrees
Circle == Tenths(3600)

(***************************************************************************)
(* GroundEngine.__init__                                                   *)
(***************************************************************************)
boundaries ==
    << [sign |-> "Aries",       boundary |-> Tenths(291)],
       [sign |-> "Taurus",      boundary |-> Tenths(534)],
       [sign |-> "Gemini",      boundary |-> Tenths(901)],
       [sign |-> "Cancer",      boundary |-> Tenths(1180)],
       [sign |-> "Leo",         boundary |-> Tenths(1381)],
       [sign |-> "Virgo",       boundary |-> Tenths(1739)],
       [sign |-> "Libra",       boundary |-> Tenths(2178)],
       [sign |-> "Scorpius",    boundary |-> Tenths(2471)],
       [sign |-> "Ophiuchus",   boundary |-> Tenths(2653)],
       [sign |-> "Sagittarius", boundary |-> Tenths(2997)],
       [sign |-> "Capricornus", boundary |-> Tenths(3279)],
       [sign |-> "Aquarius",    boundary |-> Tenths(3516)],
       [sign |-> "Pisces",      boundary |-> Tenths(3600) + Tenths(291)] >>

\* years, in tenths of a year
dasha_years ==
    [ Aries       |-> 97,
      Taurus      |-> 81,
      Gemini      |-> 122,
      Cancer      |-> 93,
      Leo         |-> 67,
      Virgo       |-> 119,
      Libra       |-> 146,
      Scorpius    |-> 98,
      Ophiuchus   |-> 61,
      Sagittarius |-> 115,
      Capricornus |-> 94,
      Aquarius    |-> 79,
      Pisces      |-> 125 ]

\* 0.01 degree
HARD_TRIGGER == Res

\* 0.5 degree
SOFT_PROXIMITY == 50 * Res

NumSigns == Len(boundaries)

\* [sign for sign, _ in self.boundaries]
sign_sequence == [i \in 1..NumSigns |-> boundaries[i].sign]

\* sign_sequence.index(sign), 0-based as in the source
IndexOf(sign) == (CHOOSE i \in 1..NumSigns : sign_sequence[i] = sign) - 1

(***************************************************************************)
(* Arithmetic helpers.                                                     *)
(***************************************************************************)
Abs(x) == IF x < 0 THEN -x ELSE x

Min(a, b) == IF a <= b THEN a ELSE b

(***************************************************************************)
(* normalize_longitude: the two while loops.                               *)
(***************************************************************************)
RECURSIVE AddTurns(_)
AddTurns(l) == IF l < 0 THEN AddTurns(l + Circle) ELSE l

RECURSIVE SubTurns(_)
SubTurns(l) == IF l >= Circle THEN SubTurns(l - Circle) ELSE l

RECURSIVE SubTurnsStrict(_)
SubTurnsStrict(l) == IF l > Circle THEN SubTurnsStrict(l - Circle) ELSE l

\* normalize_longitude with the second loop testing lon > 360
normalize_longitude_gt(l) == SubTurnsStrict(AddTurns(l))

normalize_longitude(l) == SubTurns(AddTurns(l))

(***************************************************************************)
(* get_constellation                                                       *)
(***************************************************************************)
\* the previous boundary of the arc at 0-based index i (0.0 for Aries)
prev_boundary(i) == IF i = 0 THEN 0 ELSE boundaries[i].boundary

\* the status with the thresholds compared strictly
TriggerStatusStrict(min_dist) ==
    IF min_dist < HARD_TRIGGER THEN "HARD_TRIGGER"
    ELSE IF min_dist < SOFT_PROXIMITY THEN "SOFT_PROXIMITY"
    ELSE "STABLE"

\* the if / elif / else on min_dist, the same in both branches
TriggerStatus(min_dist) ==
    IF min_dist <= HARD_TRIGGER THEN "HARD_TRIGGER"
    ELSE IF min_dist <= SOFT_PROXIMITY THEN "SOFT_PROXIMITY"
    ELSE "STABLE"

\* the standard test with the interval closed on the wrong side
InStandardArcShifted(l, prev, boundary) == prev < l /\ l <= boundary

\* the standard case's test
InStandardArc(l, prev, boundary) == prev <= l /\ l < boundary

\* the Pisces branch's test
InPiscesArc(l, prev, boundary) == l >= prev \/ l < boundary

\* the Pisces branch's body
PiscesResult(sign, l, prev, boundary) ==
    LET dist_to_start == Min(Abs(l - prev), Abs(l - (prev - Circle)))
        dist_to_end   == Min(Abs(l - boundary), Abs(l - (boundary + Circle)))
        min_dist      == Min(dist_to_start, dist_to_end)
    IN  [ sign         |-> sign,
          status       |-> TriggerStatus(min_dist),
          degrees_into |-> IF l >= prev THEN l - prev
                           ELSE (Circle - prev) + l ]

\* the standard case's body
StandardResult(sign, l, prev, boundary) ==
    LET dist_to_start == Abs(l - prev)
        dist_to_end   == Abs(l - boundary)
        min_dist      == Min(dist_to_start, dist_to_end)
    IN  [ sign         |-> sign,
          status       |-> TriggerStatus(min_dist),
          degrees_into |-> l - prev ]

\* the for loop over self.boundaries, from 0-based index i, with the
\* default return after it
RECURSIVE ScanBoundaries(_, _)
ScanBoundaries(l, i) ==
    IF i >= NumSigns
    THEN [sign |-> "Aries", status |-> "STABLE", degrees_into |-> l]
    ELSE LET sign     == boundaries[i + 1].sign
             boundary == boundaries[i + 1].boundary
             prev     == prev_boundary(i)
         IN  IF sign = "Pisces"
             THEN IF InPiscesArc(l, prev, boundary)
                  THEN PiscesResult(sign, l, prev, boundary)
                  ELSE ScanBoundaries(l, i + 1)
             ELSE IF InStandardArc(l, prev, boundary)
                  THEN StandardResult(sign, l, prev, boundary)
                  ELSE ScanBoundaries(l, i + 1)

get_constellation(l) == ScanBoundaries(normalize_longitude(l), 0)

(***************************************************************************)
(* Inputs.                                                                 *)
(***************************************************************************)
\* every longitude of the grid in [0, 360)
Longitudes == 0 .. (Circle - 1)

\* the 13 points at which the containing arc changes: 0 and the 12 interior
\* boundaries
BoundaryPoints == { prev_boundary(i) : i \in 0 .. (NumSigns - 1) }

CircDist(a, b) == Min((a - b) % Circle, (b - a) % Circle)

\* the least circular distance from l (in [0, 360)) to a boundary point
MinCircDist(l) ==
    LET near == CHOOSE b \in BoundaryPoints :
                  \A c \in BoundaryPoints : CircDist(l, b) <= CircDist(l, c)
    IN  CircDist(l, near)

\* beyond [0, 360) the grid is sampled: every grid point within the soft
\* threshold (and a margin) of a boundary point, and every tenth of a degree
SampleLongitudes ==
    { l \in Longitudes :
        \/ l % Tenths(1) = 0
        \/ MinCircDist(l) <= SOFT_PROXIMITY + 2 * HARD_TRIGGER }

\* the longitudes classified: the whole grid in [0, 360), and the sample
\* shifted by up to MaxTurns whole turns either way
RawLongitudes ==
    Longitudes \cup
    { l + k * Circle : l \in SampleLongitudes, k \in (-MaxTurns) .. MaxTurns }

(***************************************************************************)
(* Classification: one call of get_constellation on a raw longitude.       *)
(***************************************************************************)
InitClassify ==
    /\ pc = "input"
    /\ lon \in RawLongitudes
    /\ result = None
    /\ moon_lon = None
    /\ birth = None
    /\ dasha = None
    /\ bhuktis = None
    /\ query_date = None
    /\ current = None
    /\ provider = None
    /\ chart = None
    /\ events = None
    /\ score = None
    /\ scan = None

GetConstellation ==
    /\ pc = "input"
    /\ result' = get_constellation(lon)
    /\ pc' = "classified"
    /\ UNCHANGED <<lon, moon_lon, birth, dasha, bhuktis, query_date, current>>
    /\ UNCHANGED chart_vars
    /\ UNCHANGED scan_vars

NextClassify == GetConstellation

SpecClassify == InitClassify /\ [][NextClassify]_vars

(***************************************************************************)
(* Time.  An instant is a number of minutes; a year is 365.25 days.        *)
(***************************************************************************)
\* a tenth of a year, 36.525 days, in minutes
TenthYearMinutes == (36525 * 144) \div 100

\* timedelta(days=years * 365.25) for a whole number of tenths of a year
YearsDelta(tenths) == tenths * TenthYearMinutes

\* t * n / d rounded to the nearest minute, for 0 <= n <= d, computed
\* without forming t * n
MulDivRound(t, n, d) ==
    LET whole == (t \div d) * n
        part  == (t % d) * n
        floor == whole + (part \div d)
    IN  IF 2 * (part % d) >= d THEN floor + 1 ELSE floor

(***************************************************************************)
(* build_dasha_sequence                                                    *)
(***************************************************************************)
\* the index with the rotation wrapping after 12 signs
sign_index_mod12(start_index, i) == (start_index + i) % 12

\* the 0-based index of the i-th sign after the birth Dasha's
sign_index(start_index, i) == (start_index + i) % 13

\* the birth Dasha's period ending when the remaining years have run
\* from its start
birth_dasha_remaining(start_sign, start_date, remaining, elapsed) ==
    [ lord               |-> start_sign,
      start              |-> start_date,
      elapsed_at_birth   |-> elapsed,
      remaining_at_birth |-> remaining,
      total_years        |-> dasha_years[start_sign],
      end                |-> start_date + remaining ]

\* the birth Dasha's period
birth_dasha(start_sign, start_date, remaining, elapsed) ==
    [ lord               |-> start_sign,
      start              |-> start_date,
      elapsed_at_birth   |-> elapsed,
      remaining_at_birth |-> remaining,
      total_years        |-> dasha_years[start_sign],
      end                |-> start_date + YearsDelta(dasha_years[start_sign]) ]

\* the loop for i in range(1, 13), from i, with the periods so far
RECURSIVE AppendPeriods(_, _, _, _)
AppendPeriods(dasha_periods, current_date, start_index, i) ==
    IF i >= 13
    THEN dasha_periods
    ELSE LET sign     == sign_sequence[sign_index(start_index, i) + 1]
             duration == dasha_years[sign]
             period   == [ lord        |-> sign,
                           start       |-> current_date,
                           total_years |-> duration,
                           end         |-> current_date + YearsDelta(duration) ]
         IN  AppendPeriods(Append(dasha_periods, period), period.end,
                           start_index, i + 1)

build_dasha_sequence(start_sign, start_date, remaining, elapsed) ==
    LET first == birth_dasha(start_sign, start_date, remaining, elapsed)
    IN  AppendPeriods(<<first>>, first.end, IndexOf(start_sign), 1)

(***************************************************************************)
(* calculate_birth_dasha.  elapsed_years and remaining_years are kept in   *)
(* minutes (years * 365.25 days).                                          *)
(***************************************************************************)
calculate_birth_dasha(moon, birth_date) ==
    LET constellation == get_constellation(moon)
        moon_sign     == constellation.sign
        moon_index    == IndexOf(moon_sign)
        sign_start    == prev_boundary(moon_index)
        sign_end      == boundaries[moon_index + 1].boundary
        wraps         == sign_start > sign_end
        sign_arc      == IF wraps THEN (Circle - sign_start) + sign_end
                         ELSE sign_end - sign_start
        elapsed_degrees ==
            IF wraps /\ moon < sign_start THEN (Circle - sign_start) + moon
            ELSE moon - sign_start
        total_years   == dasha_years[moon_sign]
        elapsed       == MulDivRound(YearsDelta(total_years),
                                     elapsed_degrees, sign_arc)
        remaining     == YearsDelta(total_years) - elapsed
        dasha_start   == birth_date - elapsed
    IN  [ birth_dasha_lord |-> moon_sign,
          maha_dasha_start |-> dasha_start,
          elapsed_years    |-> elapsed,
          remaining_years  |-> remaining,
          sequence         |-> build_dasha_sequence(moon_sign, dasha_start,
                                                    remaining, elapsed) ]

(***************************************************************************)
(* calculate_proportional_bhuktis.  duration_days is kept in minutes;      *)
(* duration_years, the same quantity in years, is not kept.                *)
(***************************************************************************)
\* sum(self.dasha_years.values()), in tenths of a year
RECURSIVE SumYears(_)
SumYears(signs) ==
    IF signs = <<>> THEN 0
    ELSE dasha_years[Head(signs)] + SumYears(Tail(signs))

total_arc == SumYears(sign_sequence)

\* sign_sequence[start_idx:] alone, without the signs before start_idx
sequence_from(start_idx) == SubSeq(sign_sequence, start_idx + 1, NumSigns)

\* sign_sequence[start_idx:] + sign_sequence[:start_idx]
rotated_sequence(start_idx) ==
    SubSeq(sign_sequence, start_idx + 1, NumSigns)
        \o SubSeq(sign_sequence, 1, start_idx)

\* total_days * (dasha_years[sign] / 120.0), to the minute
bhukti_days(total_days, sign) ==
    (total_days * dasha_years[sign] + 600) \div 1200

\* the loop for sign in rotated_sequence, with the bhuktis so far
RECURSIVE AppendBhuktis(_, _, _, _)
AppendBhuktis(list, current_date, total_days, signs) ==
    IF signs = <<>>
    THEN list
    ELSE LET sign     == Head(signs)
             days     == bhukti_days(total_days, sign)
             end_date == current_date + days
             bhukti   == [ lord          |-> sign,
                           start         |-> current_date,
                           end           |-> end_date,
                           duration_days |-> days ]
         IN  AppendBhuktis(Append(list, bhukti), end_date, total_days,
                           Tail(signs))

calculate_proportional_bhuktis(maha_lord, maha_start_date, maha_duration_years) ==
    AppendBhuktis(<<>>, maha_start_date, YearsDelta(maha_duration_years),
                  rotated_sequence(IndexOf(maha_lord)))

(***************************************************************************)
(* get_current_dasha                                                       *)
(***************************************************************************)
\* the periods of a list that hold the date, each period holding its end
HoldingInclusiveEnd(list, date) ==
    { k \in 1 .. Len(list) : list[k].start <= date /\ date <= list[k].end }

\* the periods of a list that hold the date
Holding(list, date) ==
    { k \in 1 .. Len(list) : list[k].start <= date /\ date < list[k].end }

\* the first of them (the for loop with its break)
FirstHolding(list, date) ==
    CHOOSE k \in Holding(list, date) : \A j \in Holding(list, date) : k <= j

get_current_dasha(birth_dasha_info, current_date) ==
    LET sequence == birth_dasha_info.sequence
    IN  IF Holding(sequence, current_date) = {}
        THEN [ status  |-> "beyond_cycle",
               message |-> "Date exceeds 120-year Dasha cycle" ]
        ELSE LET current_maha == sequence[FirstHolding(sequence, current_date)]
                 list == calculate_proportional_bhuktis(
                             current_maha.lord, current_maha.start,
                             current_maha.total_years)
             IN  [ status       |-> "active",
                   maha_dasha   |-> current_maha,
                   bhukti       |-> IF Holding(list, current_date) = {}
                                    THEN None
                                    ELSE list[FirstHolding(list, current_date)],
                   current_date |-> current_date ]

(***************************************************************************)
(* The timeline: calculate_birth_dasha on a Moon longitude and a birth     *)
(* instant, then either the bhuktis of one of its periods or the Dasha     *)
(* current at a date.                                                      *)
(***************************************************************************)
\* the Moon's longitudes: every 0.3 degree, and the grid points at and
\* next to each boundary point
MoonLongitudes ==
    { l \in Longitudes : l % Tenths(3) = 0 \/ MinCircDist(l) <= 1 }

\* birth instants, in minutes
Births == { k * (12 * 60 + 5) : k \in 0 .. MaxBirthSteps }

\* 120 years
FullCycle == YearsDelta(1200)

\* the dates asked for, as offsets from the birth instant
QueryOffsets ==
    { 0, YearsDelta(10), YearsDelta(600), YearsDelta(1160),
      FullCycle - 1, FullCycle, YearsDelta(1300) }

\* the dates asked for: the offsets from birth, every period's start and
\* the instant before its end, and the instants around the first start and
\* the last end
QueryDates ==
    { birth + o : o \in QueryOffsets }
      \cup { dasha.sequence[k].start : k \in 1 .. Len(dasha.sequence) }
      \cup { dasha.sequence[k].end - 1 : k \in 1 .. Len(dasha.sequence) }
      \cup { dasha.sequence[1].start - 1,
             dasha.sequence[Len(dasha.sequence)].end }

InitDasha ==
    /\ pc = "input"
    /\ moon_lon \in MoonLongitudes
    /\ birth \in Births
    /\ lon = None
    /\ result = None
    /\ dasha = None
    /\ bhuktis = None
    /\ query_date = None
    /\ current = None
    /\ provider = None
    /\ chart = None
    /\ events = None
    /\ score = None
    /\ scan = None

CalculateBirthDasha ==
    /\ pc = "input"
    /\ dasha' = calculate_birth_dasha(moon_lon, birth)
    /\ pc' = "built"
    /\ UNCHANGED <<lon, result, moon_lon, birth, bhuktis, query_date,
                   current>>
    /\ UNCHANGED chart_vars
    /\ UNCHANGED scan_vars

CalculateProportionalBhuktis ==
    /\ pc = "built"
    /\ \E k \in 1 .. Len(dasha.sequence) :
          bhuktis' = [ period |-> k,
                       list   |-> calculate_proportional_bhuktis(
                                      dasha.sequence[k].lord,
                                      dasha.sequence[k].start,
                                      dasha.sequence[k].total_years) ]
    /\ pc' = "bhuktis"
    /\ UNCHANGED <<lon, result, moon_lon, birth, dasha, query_date,
                   current>>
    /\ UNCHANGED chart_vars
    /\ UNCHANGED scan_vars

GetCurrentDasha ==
    /\ pc = "built"
    /\ \E date \in QueryDates :
          /\ query_date' = date
          /\ current' = get_current_dasha(dasha, date)
    /\ pc' = "queried"
    /\ UNCHANGED <<lon, result, moon_lon, birth, dasha, bhuktis>>
    /\ UNCHANGED chart_vars
    /\ UNCHANGED scan_vars

NextDasha ==
    \/ CalculateBirthDasha
    \/ CalculateProportionalBhuktis
    \/ GetCurrentDasha

SpecDasha == InitDasha /\ [][NextDasha]_vars

(***************************************************************************)
(* calculate_chart.  The ephemeris provider (swisseph) is outside the      *)
(* program: what it answers for each body and for the angles is an input,  *)
(* a position or a failure (an exception), kept in provider.  A placement  *)
(* keeps longitude, speed, sign, trigger_status, degrees_into_sign and     *)
(* retrograde; latitude and the formatted position_dms are left out.       *)
(***************************************************************************)
\* self.planets, in the order of the dict
planets ==
    << "Sun", "Moon", "Mercury", "Venus", "Mars", "Jupiter", "Saturn",
       "Uranus", "Neptune", "Pluto", "Rahu" >>

PlanetNames == { planets[i] : i \in 1 .. Len(planets) }

\* a provider call that raised
Failure == [error |-> TRUE]

\* the dict with no key
EmptyDict == [k \in {} |-> None]

\* the number of houses calculate_houses builds: range(1, 13)
NumHouses == 12

\* calculate_houses: whole-sign houses from the Ascendant's constellation
calculate_houses(asc_sign, asc_lon) ==
    LET asc_index == IndexOf(asc_sign)
    IN  [ house_num \in 1 .. NumHouses |->
            LET sign_idx == (asc_index + house_num - 1) % 13
            IN  [ house_number    |-> house_num,
                  ruling_sign     |-> sign_sequence[sign_idx + 1],
                  start_longitude |-> prev_boundary(sign_idx),
                  end_longitude   |-> boundaries[sign_idx + 1].boundary ] ]

\* the houses of a list whose span holds a longitude in [0, 360)
HousesHolding(l, houses) ==
    { k \in 1 .. Len(houses) :
        IF houses[k].start_longitude > houses[k].end_longitude
        THEN l >= houses[k].start_longitude \/ l < houses[k].end_longitude
        ELSE houses[k].start_longitude <= l /\ l < houses[k].end_longitude }

\* get_house_number: the first house holding the longitude, and house 1
\* when there is none
get_house_number(planet_lon, houses) ==
    LET l == normalize_longitude(planet_lon)
        H == HousesHolding(l, houses)
    IN  IF H = {} THEN 1
        ELSE houses[CHOOSE k \in H : \A j \in H : k <= j].house_number

\* the placement of a body the provider answered for
Placement(position) ==
    LET constellation == get_constellation(position.longitude)
    IN  [ longitude         |-> position.longitude,
          speed             |-> position.speed,
          sign              |-> constellation.sign,
          trigger_status    |-> constellation.status,
          degrees_into_sign |-> constellation.degrees_into,
          retrograde        |-> position.speed < 0 ]

\* Ketu, opposite Rahu, with Rahu's retrograde
KetuPlacementAsRahu(rahu) ==
    LET ketu_lon      == normalize_longitude(rahu.longitude + Tenths(1800))
        constellation == get_constellation(ketu_lon)
    IN  [ longitude         |-> ketu_lon,
          speed             |-> 0 - rahu.speed,
          sign              |-> constellation.sign,
          trigger_status    |-> constellation.status,
          degrees_into_sign |-> constellation.degrees_into,
          retrograde        |-> rahu.retrograde ]

\* Ketu, opposite Rahu
KetuPlacement(rahu) ==
    LET ketu_lon      == normalize_longitude(rahu.longitude + Tenths(1800))
        constellation == get_constellation(ketu_lon)
    IN  [ longitude         |-> ketu_lon,
          speed             |-> 0 - rahu.speed,
          sign              |-> constellation.sign,
          trigger_status    |-> constellation.status,
          degrees_into_sign |-> constellation.degrees_into,
          retrograde        |-> FALSE ]

\* the Ascendant or the MC
Angle(angle_lon) ==
    LET constellation == get_constellation(angle_lon)
    IN  [ longitude         |-> angle_lon,
          sign              |-> constellation.sign,
          trigger_status    |-> constellation.status,
          degrees_into_sign |-> constellation.degrees_into ]

\* planet_data['house'] = ...
WithHouse(planet_data, house) ==
    [ f \in DOMAIN planet_data \cup {"house"} |->
        IF f = "house" THEN house ELSE planet_data[f] ]

\* the bodies placed if the first failure ended the loop over the planets
SucceededBeforeFailure(prov) ==
    { planets[i] : i \in { j \in 1 .. Len(planets) :
                             \A k \in 1 .. j :
                                 prov.calc_ut[planets[k]] # Failure } }

\* the bodies placed: the loop over the planets, each in its own try
Succeeded(prov) == { p \in PlanetNames : prov.calc_ut[p] # Failure }

\* every body given the house number get_house_number answers, whether or
\* not there is an Ascendant
AssignHousesAlways(luminosities, angles, houses) ==
    [ p \in DOMAIN luminosities |->
        WithHouse(luminosities[p],
                  get_house_number(luminosities[p].longitude, houses)) ]

\* the house numbers assigned to the bodies when there is an Ascendant
AssignHouses(luminosities, angles, houses) ==
    IF "Ascendant" \in DOMAIN angles
    THEN [ p \in DOMAIN luminosities |->
             WithHouse(luminosities[p],
                       get_house_number(luminosities[p].longitude, houses)) ]
    ELSE luminosities

calculate_chart(prov, birth_date) ==
    LET placed    == [ p \in Succeeded(prov) |-> Placement(prov.calc_ut[p]) ]
        with_ketu ==
            IF "Rahu" \in DOMAIN placed
            THEN [ p \in DOMAIN placed \cup {"Ketu"} |->
                     IF p = "Ketu" THEN KetuPlacement(placed["Rahu"])
                     ELSE placed[p] ]
            ELSE placed
        angles ==
            IF prov.houses_ex = Failure THEN EmptyDict
            ELSE [ a \in {"Ascendant", "MC"} |->
                     IF a = "Ascendant" THEN Angle(prov.houses_ex.ascendant)
                     ELSE Angle(prov.houses_ex.mc) ]
        houses ==
            IF "Ascendant" \in DOMAIN angles
            THEN calculate_houses(angles["Ascendant"].sign,
                                  angles["Ascendant"].longitude)
            ELSE << >>
        luminosities == AssignHouses(with_ketu, angles, houses)
    IN  [ birth_data   |-> birth_date,
          luminosities |-> luminosities,
          angles       |-> angles,
          houses       |-> houses,
          dasha        |-> IF "Moon" \in DOMAIN luminosities
                           THEN calculate_birth_dasha(
                                    luminosities["Moon"].longitude, birth_date)
                           ELSE EmptyDict ]

(***************************************************************************)
(* The chart: the provider's answers are chosen, then calculate_chart      *)
(* builds the chart of a birth instant from them.                          *)
(***************************************************************************)
\* the bodies are spread round the circle from the first body's longitude
BodySpacing == Tenths(307)

\* the first body's longitudes: each boundary point and the grid point
\* before it
BaseLongitudes ==
    BoundaryPoints \cup { (b - 1) % Circle : b \in BoundaryPoints }

\* the patterns of daily motion: body i moves back, stands or moves on
SpeedPatterns == 0 .. 2

\* the sets of bodies the provider fails for: none, one, or all
FailingSets ==
    { {} } \cup { {p} : p \in PlanetNames } \cup { PlanetNames }

\* the provider's answer for the i-th body.  Rahu is the mean node
\* (swe.MEAN_NODE), whose daily motion is always backwards.
Position(base, pattern, i) ==
    [ longitude |-> (base + (i - 1) * BodySpacing) % Circle,
      speed     |-> IF planets[i] = "Rahu" THEN 0 - 1
                    ELSE ((i + pattern) % 3) - 1 ]

\* the provider's answers for the angles: a failure, or the Ascendant at
\* the start of an arc or the grid point before it
AngleOutcomes ==
    { Failure } \cup
    { [ ascendant |-> a, mc |-> (a + Tenths(2700)) % Circle ] :
        a \in BaseLongitudes }

ProviderOutcomes ==
    { [ calc_ut   |-> [ p \in PlanetNames |->
                          IF p \in failing THEN Failure
                          ELSE Position(base, pattern,
                                        CHOOSE i \in 1 .. Len(planets) :
                                            planets[i] = p) ],
        houses_ex |-> angle ] :
      failing \in FailingSets, base \in BaseLongitudes,
      pattern \in SpeedPatterns, angle \in AngleOutcomes }

InitChart ==
    /\ pc = "input"
    /\ birth \in Births
    /\ provider \in ProviderOutcomes
    /\ chart = None
    /\ events = None
    /\ score = None
    /\ scan = None
    /\ lon = None
    /\ result = None
    /\ moon_lon = None
    /\ dasha = None
    /\ bhuktis = None
    /\ query_date = None
    /\ current = None

CalculateChart ==
    /\ pc = "input"
    /\ chart' = calculate_chart(provider, birth)
    /\ pc' = "charted"
    /\ UNCHANGED <<lon, result, moon_lon, birth, dasha, bhuktis, query_date,
                   current, provider>>
    /\ UNCHANGED scan_vars

NextChart == CalculateChart

SpecChart == InitChart /\ [][NextChart]_vars

(***************************************************************************)
(* Hours.  scan_window computes its instants in floating-point hours       *)
(* (IEEE 754 binary64, round to nearest, ties to even), and its loop       *)
(* depends on the rounding.  An hour value is kept exactly: a sign and a   *)
(* magnitude hi * 2^30 + lo counted in units of 2^-56 hour.  Every         *)
(* binary64 value of magnitude below 32 that is 0 or at least 1/16 is such *)
(* a value (so are the sums and differences of such values); hence steps   *)
(* of 4 minutes or more, and instants of 32 hours or less.                 *)
(***************************************************************************)
\* the weight of hi
Limb == 2 ^ 30

\* hi of one hour: 2^56 / 2^30
HourHi == 2 ^ 26

RECURSIVE BitLength(_)
BitLength(n) == IF n = 0 THEN 0 ELSE 1 + BitLength(n \div 2)

\* a magnitude rounded to 53 significant bits, ties to even; rem / den
\* (0 <= rem < den) is what the magnitude leaves out of the exact value
RoundMagnitude(hi, lo, rem, den) ==
    LET excess == BitLength(hi) - 23
        drop   == IF excess > 0 THEN excess ELSE 0
        q      == 2 ^ drop
        r      == lo % q
        kept   == lo - r
        above  == IF drop = 0 THEN 2 * rem > den
                  ELSE r > q \div 2 \/ (r = q \div 2 /\ rem > 0)
        tie    == IF drop = 0 THEN 2 * rem = den /\ rem > 0
                  ELSE r = q \div 2 /\ rem = 0
        up     == above \/ (tie /\ (lo \div q) % 2 = 1)
        low    == IF up THEN kept + q ELSE kept
    IN  [ hi |-> hi + (low \div Limb), lo |-> low % Limb ]

\* the magnitudes compared
MagLess(a, b) == a.hi < b.hi \/ (a.hi = b.hi /\ a.lo < b.lo)

\* a rounded sum of two binary64 values with the rounding left out
FloatAddExact(a, b) ==
    IF a.neg = b.neg
    THEN [ neg |-> a.neg,
           hi  |-> a.hi + b.hi + ((a.lo + b.lo) \div Limb),
           lo  |-> (a.lo + b.lo) % Limb ]
    ELSE LET big   == IF MagLess(a, b) THEN b ELSE a
             small == IF MagLess(a, b) THEN a ELSE b
             borrow == IF big.lo < small.lo THEN 1 ELSE 0
             hi    == big.hi - small.hi - borrow
             lo    == big.lo - small.lo + borrow * Limb
         IN  [ neg |-> (hi # 0 \/ lo # 0) /\ big.neg, hi |-> hi, lo |-> lo ]

\* a + b in binary64
FloatAdd(a, b) ==
    LET exact   == FloatAddExact(a, b)
        rounded == RoundMagnitude(exact.hi, exact.lo, 0, 1)
    IN  [ neg |-> exact.neg, hi |-> rounded.hi, lo |-> rounded.lo ]

\* -a
FloatNeg(a) == [ neg |-> (a.hi # 0 \/ a.lo # 0) /\ ~a.neg,
                 hi |-> a.hi, lo |-> a.lo ]

\* a - b in binary64
FloatSub(a, b) == FloatAdd(a, FloatNeg(b))

\* a < b and a <= b
FloatLess(a, b) ==
    IF a.neg # b.neg THEN a.neg
    ELSE IF a.neg THEN MagLess(b, a) ELSE MagLess(a, b)

FloatLeq(a, b) == ~FloatLess(b, a)

\* a whole number of half hours, which binary64 holds exactly
HalfHours(n) ==
    [ neg |-> n < 0, hi |-> (IF n < 0 THEN 0 - n ELSE n) * (HourHi \div 2),
      lo  |-> 0 ]

\* minutes / 60.0 in binary64: the quotient by long division, 13, 13, 15
\* and 15 bits at a time, then rounded
MinutesOverSixty(minutes) ==
    LET n1 == (minutes % 60) * (2 ^ 13)
        n2 == (n1 % 60) * (2 ^ 13)
        n3 == (n2 % 60) * (2 ^ 15)
        n4 == (n3 % 60) * (2 ^ 15)
        hi == (minutes \div 60) * HourHi + (n1 \div 60) * (2 ^ 13)
                  + (n2 \div 60)
        lo == (n3 \div 60) * (2 ^ 15) + (n4 \div 60)
        rounded == RoundMagnitude(hi, lo, n4 % 60, 60)
    IN  [ neg |-> FALSE, hi |-> rounded.hi, lo |-> rounded.lo ]

\* the minute nearest to an hour value of magnitude below 32
NearestMinute(a) ==
    LET magnitude == ((a.hi \div (2 ^ 10)) * 60 + 2 ^ 15) \div (2 ^ 16)
    IN  IF a.neg THEN 0 - magnitude ELSE magnitude

(***************************************************************************)
(* RectificationScanner (src/rectification.py): score_candidate.  A life   *)
(* event is a record with an optional date (an instant, in minutes), type  *)
(* and intensity.  What the provider answers for the transiting planets   *)
(* is kept in provider.transits; the model takes one sky for all the event *)
(* dates of a run.  An operator answers Failure where the code raises.     *)
(***************************************************************************)
\* self.event_signatures
event_signatures ==
    [ career_launch         |-> {"Aries", "Leo", "Sagittarius"},
      conflict              |-> {"Aries", "Scorpius"},
      surgery               |-> {"Aries", "Scorpius", "Ophiuchus"},
      competition           |-> {"Aries", "Leo"},
      relationship_start    |-> {"Taurus", "Libra", "Pisces"},
      relationship_end      |-> {"Libra", "Scorpius", "Aquarius"},
      artistic_breakthrough |-> {"Taurus", "Libra", "Pisces"},
      financial_gain        |-> {"Taurus", "Leo", "Sagittarius"},
      restriction           |-> {"Capricornus", "Aquarius", "Virgo"},
      responsibility        |-> {"Capricornus", "Virgo", "Cancer"},
      financial_reset       |-> {"Capricornus", "Scorpius", "Aquarius"},
      career_setback        |-> {"Capricornus", "Scorpius"},
      disruption            |-> {"Ophiuchus", "Aquarius", "Scorpius"},
      spiritual_awakening   |-> {"Ophiuchus", "Pisces", "Sagittarius"},
      loss                  |-> {"Scorpius", "Pisces", "Cancer"},
      radical_change        |-> {"Ophiuchus", "Aquarius", "Aries"},
      education             |-> {"Gemini", "Virgo", "Sagittarius"},
      travel                |-> {"Gemini", "Sagittarius", "Pisces"},
      communication         |-> {"Gemini", "Libra", "Aquarius"},
      writing               |-> {"Gemini", "Virgo", "Pisces"},
      expansion             |-> {"Sagittarius", "Pisces", "Leo"},
      teaching              |-> {"Sagittarius", "Gemini", "Virgo"},
      philosophy            |-> {"Sagittarius", "Aquarius", "Pisces"},
      recognition           |-> {"Leo", "Sagittarius", "Capricornus"},
      home_change           |-> {"Cancer", "Taurus", "Capricornus"},
      emotional_crisis      |-> {"Cancer", "Scorpius", "Pisces"},
      mother_event          |-> {"Cancer", "Virgo", "Pisces"},
      nurturing_role        |-> {"Cancer", "Virgo", "Taurus"},
      healing_crisis        |-> {"Ophiuchus", "Virgo", "Scorpius"},
      identity_realization  |-> {"Ophiuchus", "Leo", "Aquarius"},
      transmutation         |-> {"Ophiuchus", "Scorpius", "Pisces"},
      health_breakthrough   |-> {"Ophiuchus", "Virgo", "Sagittarius"} ]

\* self.special_triggers
special_triggers ==
    [ ophiuchus_mercury |-> 20, sun_boundary |-> 15, moon_boundary |-> 12,
      ascendant_hit |-> 18 ]

\* a day, in minutes
Day == 24 * 60

\* the bodies of a chart in the order of the dict: the planets placed,
\* then Ketu
RECURSIVE BodiesInOrder(_, _)
BodiesInOrder(luminosities, i) ==
    IF i > Len(planets)
    THEN IF "Ketu" \in DOMAIN luminosities THEN <<"Ketu">> ELSE << >>
    ELSE (IF planets[i] \in DOMAIN luminosities THEN <<planets[i]>>
          ELSE << >>) \o BodiesInOrder(luminosities, i + 1)

\* the bodies of a list with a trigger_status
RECURSIVE WithStatus(_, _, _)
WithStatus(luminosities, bodies, status) ==
    IF bodies = << >> THEN << >>
    ELSE (IF luminosities[Head(bodies)].trigger_status = status
          THEN <<Head(bodies)>> ELSE << >>)
            \o WithStatus(luminosities, Tail(bodies), status)

\* a body of the chart is within 0.01 degree of a boundary
AtHardBoundary(luminosities, body) ==
    /\ body \in DOMAIN luminosities
    /\ luminosities[body].trigger_status = "HARD_TRIGGER"

\* a body of the chart is at a boundary
AtBoundary(luminosities, body) ==
    /\ body \in DOMAIN luminosities
    /\ luminosities[body].trigger_status \in {"HARD_TRIGGER", "SOFT_PROXIMITY"}

\* the scores before the events: the natal boundary triggers and the
\* special natal patterns
NatalScore(natal_chart) ==
    LET luminosities == natal_chart.luminosities
        bodies == BodiesInOrder(luminosities, 1)
        natal_hard == WithStatus(luminosities, bodies, "HARD_TRIGGER")
        natal_soft == WithStatus(luminosities, bodies, "SOFT_PROXIMITY")
        mercury == IF "Mercury" \in DOMAIN luminosities
                      /\ luminosities["Mercury"].sign = "Ophiuchus"
                   THEN special_triggers.ophiuchus_mercury ELSE 0
        sun     == IF AtBoundary(luminosities, "Sun")
                   THEN special_triggers.sun_boundary ELSE 0
        moon    == IF AtBoundary(luminosities, "Moon")
                   THEN special_triggers.moon_boundary ELSE 0
    IN  [ natal_hard       |-> natal_hard,
          natal_soft       |-> natal_soft,
          natal_boundaries |-> 8 * Len(natal_hard) + 4 * Len(natal_soft),
          special_patterns |-> mercury + sun + moon,
          special          |-> (IF mercury > 0 THEN <<"Mercury in Ophiuchus">>
                                ELSE << >>)
                               \o (IF sun > 0 THEN <<"Sun boundary">>
                                   ELSE << >>)
                               \o (IF moon > 0 THEN <<"Moon boundary">>
                                   ELSE << >>) ]

\* the conjunctions of a transiting longitude with the natal bodies from the
\* i-th on: orb <= 2 degrees
RECURSIVE Conjunctions(_, _, _, _)
Conjunctions(planet_name, transit_lon, natal_chart, bodies) ==
    IF bodies = << >> THEN << >>
    ELSE LET natal_lon == natal_chart.luminosities[Head(bodies)].longitude
             distance  == Abs(transit_lon - natal_lon)
             orb       == IF distance > Tenths(1800) THEN Circle - distance
                          ELSE distance
         IN  (IF orb <= Tenths(20)
              THEN << [transit |-> planet_name, natal |-> Head(bodies)] >>
              ELSE << >>)
               \o Conjunctions(planet_name, transit_lon, natal_chart,
                               Tail(bodies))

\* the triggers of one transiting planet, added to those so far
TransitOf(planet_name, position, natal_chart, triggers) ==
    LET constellation == get_constellation(position.longitude)
        sign  == constellation.sign
        found == Conjunctions(planet_name, position.longitude, natal_chart,
                              BodiesInOrder(natal_chart.luminosities, 1))
        boundary == [ planet |-> planet_name, sign |-> sign,
                      text |-> "boundary" ]
        moon_conjunct ==
            /\ planet_name = "Mercury"
            /\ sign = "Ophiuchus"
            /\ \E k \in 1 .. Len(found) : found[k].natal = "Moon"
    IN  [ hard |-> triggers.hard
                     \o (IF constellation.status = "HARD_TRIGGER"
                         THEN <<boundary>> ELSE << >>)
                     \o (IF moon_conjunct
                         THEN << [ planet |-> planet_name, sign |-> sign,
                                   text |-> "OPHIUCHUS MERCURY CONJUNCT NATAL MOON" ] >>
                         ELSE << >>),
          soft |-> triggers.soft
                     \o (IF constellation.status = "SOFT_PROXIMITY"
                         THEN <<boundary>> ELSE << >>),
          conjunctions |-> triggers.conjunctions \o found ]

\* the loop over self.engine.planets from the i-th planet, inside one try:
\* a call that raises ends the loop, and what was found before is kept
RECURSIVE TransitLoop(_, _, _, _)
TransitLoop(answers, natal_chart, triggers, i) ==
    IF i > Len(planets) \/ answers[planets[i]] = Failure
    THEN triggers
    ELSE TransitLoop(answers, natal_chart,
                     TransitOf(planets[i], answers[planets[i]], natal_chart,
                               triggers),
                     i + 1)

\* check_event_transits, on what the provider answers for the planets
check_event_transits(answers, natal_chart) ==
    TransitLoop(answers, natal_chart,
                [ hard |-> << >>, soft |-> << >>, conjunctions |-> << >> ], 1)

\* 'Ascendant' in trigger: the trigger's text names a planet and a sign
MentionsAscendant(trigger) ==
    trigger.planet = "Ascendant" \/ trigger.sign = "Ascendant"

\* transit_triggers.get('longitude', 999): the dict has no such key
TransitLongitudeDefault == Tenths(9990)

\* a transit hits the Ascendant
AscendantHit(natal_chart, transit_triggers) ==
    /\ "Ascendant" \in DOMAIN natal_chart.angles
    /\ \E k \in 1 .. Len(transit_triggers.hard) :
          \/ MentionsAscendant(transit_triggers.hard[k])
          \/ Abs(natal_chart.angles["Ascendant"].longitude
                   - TransitLongitudeDefault) < Tenths(10)

\* event_score with the intensity bonus left out
EventScoreLessBonus(dasha_start, type_match, bonus, transit, ascendant) ==
    dasha_start + type_match + transit + ascendant

\* event_score: what the body of the loop adds up for one event
EventScore(dasha_start, type_match, bonus, transit, ascendant) ==
    dasha_start + type_match + bonus + transit + ascendant

\* days_from_maha_start <= 30 and days_from_bhukti_start <= 30: the
\* date is within 30 days of the start
NearStart(event_date, start) == Abs((event_date - start) \div Day) <= 30

\* the bonus for an event near the start of its Maha Dasha
MahaStartBonus(event_date, current_dasha) ==
    IF NearStart(event_date, current_dasha.maha_dasha.start) THEN 10 ELSE 0

\* the Bhukti bonus given only within three days of the start
BhuktiStartBonusThreeDays(event_date, current_dasha) ==
    IF Abs((event_date - current_dasha.bhukti.start) \div Day) <= 3
    THEN 10 ELSE 0

\* the bonus for an event near the start of its Bhukti
BhuktiStartBonus(event_date, current_dasha) ==
    IF NearStart(event_date, current_dasha.bhukti.start) THEN 10 ELSE 0

\* the intensity bonus given whatever event_score is
IntensityBonusWithoutScore(intensity, event_score) ==
    IF intensity >= 8 THEN 3 ELSE 0

\* the intensity bonus of an event in an active Dasha, event_score being
\* what the Dasha starts and the event type have added so far
IntensityBonus(intensity, event_score) ==
    IF intensity >= 8 /\ event_score > 0 THEN 3 ELSE 0

\* one note for each trigger of a list
Notes(triggers, note) == [ k \in 1 .. Len(triggers) |-> note ]

\* the scoring of one dated life event, given the Dasha found at its date
\* and the transit triggers of its date: what the body of the loop over
\* life_events adds, or Failure when an active Dasha has no Bhukti
ScoreDated(natal_chart, event, current_dasha, transit_triggers) ==
    LET event_date == event.date
        event_type == IF "type" \in DOMAIN event THEN event.type
                      ELSE "unknown"
        intensity  == IF "intensity" \in DOMAIN event THEN event.intensity
                      ELSE 5
        active     == current_dasha.status = "active"
    IN  IF active /\ current_dasha.bhukti = None THEN Failure
        ELSE
        LET maha_start   == IF active
                            THEN MahaStartBonus(event_date, current_dasha)
                            ELSE 0
            bhukti_start == IF active
                            THEN BhuktiStartBonus(event_date, current_dasha)
                            ELSE 0
            known        == active /\ event_type \in DOMAIN event_signatures
            maha_match   == IF known /\ current_dasha.maha_dasha.lord
                                          \in event_signatures[event_type]
                            THEN 5 ELSE 0
            bhukti_match == IF known /\ current_dasha.bhukti.lord
                                          \in event_signatures[event_type]
                            THEN 5 ELSE 0
            bonus        == IF active
                            THEN IntensityBonus(intensity,
                                     maha_start + bhukti_start + maha_match
                                       + bhukti_match)
                            ELSE 0
            transit == 6 * Len(transit_triggers.hard)
                         + 3 * Len(transit_triggers.soft)
            ascendant == IF AscendantHit(natal_chart, transit_triggers)
                         THEN 18 ELSE 0
            event_score == EventScore(maha_start + bhukti_start,
                                      maha_match + bhukti_match, bonus,
                                      transit, ascendant)
            event_notes ==
                (IF maha_start > 0 THEN <<"Maha Dasha transition">> ELSE << >>)
                  \o (IF bhukti_start > 0 THEN <<"Bhukti transition">>
                      ELSE << >>)
                  \o (IF maha_match > 0 THEN <<"Maha lord matches event type">>
                      ELSE << >>)
                  \o (IF bhukti_match > 0
                      THEN <<"Bhukti lord matches event type">> ELSE << >>)
                  \o (IF bonus > 0 THEN <<"High intensity event (bonus)">>
                      ELSE << >>)
                  \o Notes(transit_triggers.hard, "Transit HARD")
                  \o Notes(transit_triggers.soft, "Transit SOFT")
                  \o (IF ascendant > 0 THEN <<"Transit conjunct Ascendant">>
                      ELSE << >>)
        IN  [ dasha_correlation  |-> maha_start + bhukti_start + bonus,
              event_type_match   |-> maha_match + bhukti_match,
              transit_boundaries |-> transit,
              special_patterns   |-> ascendant,
              transit_hard       |-> transit_triggers.hard,
              transit_soft       |-> transit_triggers.soft,
              special            |-> IF ascendant > 0 THEN <<"Ascendant hit">>
                                     ELSE << >>,
              match |-> [ date  |-> event_date,
                          type  |-> event_type,
                          score |-> event_score,
                          notes |-> event_notes,
                          dasha |-> IF active THEN current_dasha ELSE None ] ]

\* the scoring of one life event, or Failure when it raises (an event with
\* no 'date', a chart with no timeline, an active Dasha with no Bhukti)
ScoreEvent(natal_chart, event, prov) ==
    IF "date" \notin DOMAIN event THEN Failure
    ELSE IF "sequence" \notin DOMAIN natal_chart.dasha THEN Failure
    ELSE ScoreDated(natal_chart, event,
                    get_current_dasha(natal_chart.dasha, event.date),
                    check_event_transits(prov.transits, natal_chart))

\* the result so far with one scored event added to it
AddEvent(so_far, scored) ==
    [ total_score   |-> so_far.total_score + scored.match.score,
      event_matches |-> Append(so_far.event_matches, scored.match),
      triggers |->
        [ natal_hard   |-> so_far.triggers.natal_hard,
          natal_soft   |-> so_far.triggers.natal_soft,
          transit_hard |-> so_far.triggers.transit_hard
                             \o scored.transit_hard,
          transit_soft |-> so_far.triggers.transit_soft
                             \o scored.transit_soft,
          special      |-> so_far.triggers.special \o scored.special ],
      breakdown |->
        [ dasha_correlation  |-> so_far.breakdown.dasha_correlation
                                   + scored.dasha_correlation,
          event_type_match   |-> so_far.breakdown.event_type_match
                                   + scored.event_type_match,
          natal_boundaries   |-> so_far.breakdown.natal_boundaries,
          transit_boundaries |-> so_far.breakdown.transit_boundaries
                                   + scored.transit_boundaries,
          special_patterns   |-> so_far.breakdown.special_patterns
                                   + scored.special_patterns ] ]

\* the loop over life_events from the i-th event, with the result so far;
\* ScoreNext continues it past the i-th event once that one is scored
RECURSIVE ScoreEvents(_, _, _, _, _)
ScoreNext(natal_chart, life_events, prov, i, so_far, scored) ==
    IF scored = Failure THEN Failure
    ELSE ScoreEvents(natal_chart, life_events, prov, i + 1,
                     AddEvent(so_far, scored))

ScoreEvents(natal_chart, life_events, prov, i, so_far) ==
    IF i > Len(life_events) THEN so_far
    ELSE ScoreNext(natal_chart, life_events, prov, i, so_far,
                   ScoreEvent(natal_chart, life_events[i], prov))

\* the result before the loop over life_events: the natal score only
NatalResult(natal) ==
    [ total_score   |-> natal.natal_boundaries + natal.special_patterns,
      event_matches |-> << >>,
      triggers  |-> [ natal_hard   |-> natal.natal_hard,
                      natal_soft   |-> natal.natal_soft,
                      transit_hard |-> << >>,
                      transit_soft |-> << >>,
                      special      |-> natal.special ],
      breakdown |-> [ dasha_correlation  |-> 0,
                      event_type_match   |-> 0,
                      natal_boundaries   |-> natal.natal_boundaries,
                      transit_boundaries |-> 0,
                      special_patterns   |-> natal.special_patterns ] ]

\* score_candidate: the result, or Failure when it raises
score_candidate(natal_chart, life_events, prov) ==
    ScoreEvents(natal_chart, life_events, prov, 1,
                NatalResult(NatalScore(natal_chart)))

(***************************************************************************)
(* Scoring: the provider's answers are chosen, calculate_chart builds the  *)
(* chart of the birth instant, and score_candidate scores it against a     *)
(* list of life events.                                                    *)
(***************************************************************************)
\* the provider's answers for the planets, the i-th planet BodySpacing
\* after the one before it
Sky(failing, base, pattern) ==
    [ p \in PlanetNames |->
        IF p \in failing THEN Failure
        ELSE Position(base, pattern,
                      CHOOSE i \in 1 .. Len(planets) : planets[i] = p) ]

\* the first body's natal longitudes: the Sun on the seam, the Moon on and
\* near the start of Ophiuchus, Mercury in Ophiuchus, and none of these
NatalBases ==
    { 0,
      (Tenths(2471) - BodySpacing) % Circle,
      (Tenths(2471) - BodySpacing + SOFT_PROXIMITY) % Circle,
      (Tenths(2471) - 2 * BodySpacing + Tenths(50)) % Circle,
      Tenths(1000) }

\* the first body's transiting longitudes: Mercury on the start of
\* Ophiuchus, Mars on it, the Sun near the seam, and none of these
TransitBases ==
    { (Tenths(2471) - 2 * BodySpacing) % Circle,
      (Tenths(2471) - 4 * BodySpacing) % Circle, SOFT_PROXIMITY,
      Tenths(1000) }

ScoreProviders ==
    { [ calc_ut   |-> Sky(failing, base, 0),
        houses_ex |-> angle,
        transits  |-> Sky(transit_failing, transit_base, 0) ] :
      failing \in { {}, {"Moon"} }, base \in NatalBases,
      angle \in { Failure,
                  [ ascendant |-> Tenths(2471),
                    mc        |-> (Tenths(2471) + Tenths(2700)) % Circle ] },
      transit_failing \in { {}, {"Venus"} }, transit_base \in TransitBases }

\* the life events a list is made of, for a birth instant: events after
\* the 6.1 years of Ophiuchus, after 30 years, before the birth and after
\* 130 years, and an event with no date
LifeEvents(birth_date) ==
    { [ date |-> birth_date + YearsDelta(61) + 10 * Day,
        type |-> "identity_realization", intensity |-> 9 ],
      [ date |-> birth_date + YearsDelta(300),
        type |-> "travel", intensity |-> 5 ],
      [ date |-> birth_date - 400 * Day, type |-> "wedding" ],
      [ date |-> birth_date + YearsDelta(1300), intensity |-> 10 ],
      [ type |-> "loss", intensity |-> 8 ] }

\* the lists of at most n life events
RECURSIVE EventLists(_, _)
EventLists(birth_date, n) ==
    IF n = 0 THEN { << >> }
    ELSE LET shorter == EventLists(birth_date, n - 1)
         IN  shorter \cup { Append(list, e) :
                              list \in { l \in shorter : Len(l) = n - 1 },
                              e \in LifeEvents(birth_date) }

InitScore ==
    /\ pc = "input"
    /\ birth \in Births
    /\ provider \in ScoreProviders
    /\ chart = None
    /\ events = None
    /\ score = None
    /\ scan = None
    /\ lon = None
    /\ result = None
    /\ moon_lon = None
    /\ dasha = None
    /\ bhuktis = None
    /\ query_date = None
    /\ current = None

ScoreCandidate ==
    /\ pc = "charted"
    /\ \E list \in EventLists(birth, MaxEvents) :
          /\ events' = list
          /\ score' = score_candidate(chart, list, provider)
    /\ pc' = "scored"
    /\ UNCHANGED <<lon, result, moon_lon, birth, dasha, bhuktis, query_date,
                   current, provider, chart, scan>>

NextScore ==
    \/ CalculateChart
    \/ ScoreCandidate

SpecScore == InitScore /\ [][NextScore]_vars

(***************************************************************************)
(* scan_window.  birth_date is day 0, an instant is counted in minutes     *)
(* from its midnight, and approx_time_utc and window_hours are whole       *)
(* numbers of half hours.  The provider's answers depend on the instant:   *)
(* every body moves one grid unit a minute from where provider.base puts   *)
(* it at midnight.  The loop runs one iteration a step; the sort and the   *)
(* return are the last step.                                               *)
(***************************************************************************)
\* the provider's answers at an instant
ProviderAt(prov, instant) ==
    [ calc_ut   |-> Sky(prov.failing, (prov.base + instant) % Circle, 0),
      houses_ex |-> prov.houses_ex,
      transits  |-> prov.transits ]

\* test_day less birth_date's day, and test_time, for current_time
TestDay(current_time) ==
    IF current_time.neg THEN 0 - 1
    ELSE IF FloatLeq(HalfHours(48), current_time) THEN 1 ELSE 0

TestTime(current_time) ==
    IF current_time.neg THEN FloatAdd(HalfHours(48), current_time)
    ELSE IF FloatLeq(HalfHours(48), current_time)
         THEN FloatSub(current_time, HalfHours(48))
         ELSE current_time

\* the instant of a date and an hour_utc: datetime(year, month, day) +
\* timedelta(hours=hour_utc)
InstantOf(day, hour_utc) == day * Day + NearestMinute(hour_utc)

\* a list with a candidate put before the first one that scores no more
InsertBeforeEqual(sorted, candidate) ==
    LET before == { k \in 1 .. Len(sorted) :
                      \A j \in 1 .. k : sorted[j].score > candidate.score }
        n == Cardinality(before)
    IN  SubSeq(sorted, 1, n) \o <<candidate>>
          \o SubSeq(sorted, n + 1, Len(sorted))

\* a list sorted by score, highest first, with a candidate put after
\* those that score as much or more
InsertByScore(sorted, candidate) ==
    LET before == { k \in 1 .. Len(sorted) :
                      \A j \in 1 .. k : sorted[j].score >= candidate.score }
        n == Cardinality(before)
    IN  SubSeq(sorted, 1, n) \o <<candidate>>
          \o SubSeq(sorted, n + 1, Len(sorted))

\* candidates.sort(key=lambda x: x['score'], reverse=True): a stable sort
RECURSIVE SortByScore(_, _)
SortByScore(candidates, sorted) ==
    IF candidates = << >> THEN sorted
    ELSE SortByScore(Tail(candidates),
                     InsertByScore(sorted, Head(candidates)))

\* the approximate times, the steps and the providers of a scan
ApproxHalfHours == {0, 1, 25, 47}

StepMinutes == {5, 10, 15}

ScanProviders ==
    { [ failing   |-> failing,
        base      |-> base,
        houses_ex |-> [ ascendant |-> Tenths(2471),
                        mc        |-> (Tenths(2471) + Tenths(2700)) % Circle ],
        transits  |-> Sky({}, Tenths(1000), 0) ] :
      failing \in { {}, {"Moon"} },
      base \in { 0, (0 - 13 * 60) % Circle,
                 (Tenths(2471) - BodySpacing - 12 * 60) % Circle } }

\* the event lists of a scan: none, and one event of intensity 8 or 9,
\* with or without its date
ScanEventLists ==
    { list \in EventLists(0, 1) :
        list # << >> => /\ "intensity" \in DOMAIN list[1]
                        /\ list[1].intensity \in {8, 9} }

InitScan ==
    /\ pc = "input"
    /\ birth = 0
    /\ provider \in ScanProviders
    /\ events \in ScanEventLists
    /\ scan \in { [ approx_time_utc |-> HalfHours(a),
                    window_hours    |-> HalfHours(w),
                    step_minutes    |-> m ] :
                  a \in ApproxHalfHours, w \in 1 .. MaxWindowHalfHours,
                  m \in StepMinutes }
    /\ chart = None
    /\ score = None
    /\ lon = None
    /\ result = None
    /\ moon_lon = None
    /\ dasha = None
    /\ bhuktis = None
    /\ query_date = None
    /\ current = None

\* the locals of scan_window before the loop, for its arguments
BeforeLoop(arguments) ==
    [ approx_time_utc |-> arguments.approx_time_utc,
      window_hours    |-> arguments.window_hours,
      step_minutes    |-> arguments.step_minutes,
      candidates   |-> << >>,
      start_time   |-> FloatSub(arguments.approx_time_utc,
                                arguments.window_hours),
      end_time     |-> FloatAdd(arguments.approx_time_utc,
                                arguments.window_hours),
      step_hours   |-> MinutesOverSixty(arguments.step_minutes),
      current_time |-> FloatSub(arguments.approx_time_utc,
                                arguments.window_hours),
      scan_count   |-> 0 ]

\* scan_window up to the loop
StartScan ==
    /\ pc = "input"
    /\ scan' = BeforeLoop(scan)
    /\ pc' = "scanning"
    /\ UNCHANGED <<lon, result, moon_lon, birth, dasha, bhuktis, query_date,
                   current, provider, chart, events, score>>

\* the locals at the end of an iteration: the candidate of the instant is
\* appended unless scoring it raised, and current_time moves on by one step
AfterIteration(locals, test_day, test_time, the_chart, score_result) ==
    [ locals EXCEPT
        !.candidates =
            IF score_result = Failure THEN @
            ELSE Append(@,
                   [ time_utc          |-> test_time,
                     date              |-> test_day,
                     score             |-> score_result.total_score,
                     chart             |-> the_chart,
                     event_matches     |-> score_result.event_matches,
                     triggers          |-> score_result.triggers,
                     scoring_breakdown |-> score_result.breakdown ]),
        !.scan_count = IF score_result = Failure THEN @ ELSE @ + 1,
        !.current_time = FloatAdd(@, locals.step_hours) ]

\* the end of an iteration
AppendCandidate(test_day, test_time, the_chart, score_result) ==
    /\ chart' = the_chart
    /\ score' = score_result
    /\ scan' = AfterIteration(scan, test_day, test_time, the_chart,
                              score_result)

\* the chart of the instant is scored against the life events
ScoreChart(test_day, test_time, prov, the_chart) ==
    AppendCandidate(test_day, test_time, the_chart,
                    score_candidate(the_chart, events, prov))

\* the chart of the instant is built from the provider's answers there
TestInstant(test_day, test_time, instant) ==
    ScoreChart(test_day, test_time, ProviderAt(provider, instant),
               calculate_chart(ProviderAt(provider, instant), instant))

\* one iteration of the loop: the chart of the instant is built and
\* scored, and the candidate is appended unless that raised
ScanStep ==
    /\ pc = "scanning"
    /\ FloatLeq(scan.current_time, scan.end_time)
    /\ TestInstant(TestDay(scan.current_time), TestTime(scan.current_time),
                   InstantOf(TestDay(scan.current_time),
                             TestTime(scan.current_time)))
    /\ UNCHANGED <<pc, lon, result, moon_lon, birth, dasha, bhuktis,
                   query_date, current, provider, events>>

\* the loop is left: the candidates are sorted and returned
ReturnCandidates ==
    /\ pc = "scanning"
    /\ ~FloatLeq(scan.current_time, scan.end_time)
    /\ scan' = [ scan EXCEPT !.candidates = SortByScore(@, << >>) ]
    /\ pc' = "scanned"
    /\ UNCHANGED <<lon, result, moon_lon, birth, dasha, bhuktis, query_date,
                   current, provider, chart, events, score>>

NextScan ==
    \/ StartScan
    \/ ScanStep
    \/ ReturnCandidates

SpecScan == InitScan /\ [][NextScan]_vars

(***************************************************************************)
(* Two scans on one engine and one scanner.  app.py builds one             *)
(* GroundEngine and one RectificationScanner for the process               *)
(* (st.cache_resource), so two sessions run scan_window on the same        *)
(* objects.  Neither object is assigned to after __init__; the one thing   *)
(* a scan writes that the other can see is the provider's observer,        *)
(* swe.set_topo at the top of every calculate_chart.  Each caller is in    *)
(* scan_window with its own arguments and locals; a step of a caller is    *)
(* the start of the scan, swe.set_topo, the rest of calculate_chart,       *)
(* score_candidate with the append, or the sort with the return, and the   *)
(* steps of the two callers interleave freely.                             *)
(***************************************************************************)
Callers == {1, 2}

\* the longitude argument of each caller, in grid units
CallerLongitude == <<Tenths(10), Tenths(25)>>

\* the flags of swe.calc_ut without and with the observer's place
ChartFlagsTopocentric == {"FLG_SPEED", "FLG_TOPOCTR"}

\* the flags calculate_chart and check_event_transits pass to swe.calc_ut
ChartFlags == {"FLG_SPEED"}

\* swe.calc_ut under flags: the place given to swe.set_topo moves a body
\* only when the topocentric flag is among them
Observed(sky, flags, topo) ==
    IF "FLG_TOPOCTR" \in flags
    THEN [ p \in DOMAIN sky |->
             IF sky[p] = Failure THEN Failure
             ELSE [ sky[p] EXCEPT !.longitude = (@ + topo) % Circle ] ]
    ELSE sky

\* swe.houses_ex(jd, latitude, longitude, b'P'): the angles turn with the
\* longitude argument
HousesAt(angles, longitude) ==
    [ ascendant |-> (angles.ascendant + longitude) % Circle,
      mc        |-> (angles.mc + longitude) % Circle ]

\* the provider's answers to a caller at an instant, the observer being
\* where the last swe.set_topo put it
ProviderFor(prov, instant, longitude) ==
    [ calc_ut   |-> Observed(ProviderAt(prov, instant).calc_ut, ChartFlags,
                             prov.topo),
      houses_ex |-> HousesAt(prov.houses_ex, longitude),
      transits  |-> Observed(prov.transits, ChartFlags, prov.topo) ]

\* the instant of the iteration scan_window is in
InstantNow(locals) ==
    InstantOf(TestDay(locals.current_time), TestTime(locals.current_time))

\* the providers and the arguments of the two scans: the Sun is on the seam
\* at midnight, or at 100 degrees; the first caller scans the hour after
\* midnight and the second the hour around it
SharedProviders ==
    { [ failing   |-> {},
        base      |-> base,
        houses_ex |-> [ ascendant |-> Tenths(2471),
                        mc        |-> (Tenths(2471) + Tenths(2700)) % Circle ],
        transits  |-> Sky({}, Tenths(1000), 0),
        topo      |-> 0 ] :
      base \in { 0, Tenths(1000) } }

SharedArguments(c, life_events) ==
    [ locals      |-> [ approx_time_utc |-> HalfHours(IF c = 1 THEN 1 ELSE 0),
                        window_hours    |-> HalfHours(1),
                        step_minutes    |-> 15 ],
      longitude   |-> CallerLongitude[c],
      life_events |-> life_events,
      at          |-> "input",
      chart       |-> None,
      topo_seen   |-> {} ]

InitShared ==
    /\ pc = "interleaved"
    /\ birth = 0
    /\ provider \in SharedProviders
    /\ scan \in { [ c \in Callers |-> SharedArguments(c, lists[c]) ] :
                  lists \in (ScanEventLists \ { << >> }) \X { << >> } }
    /\ events = None
    /\ chart = None
    /\ score = None
    /\ lon = None
    /\ result = None
    /\ moon_lon = None
    /\ dasha = None
    /\ bhuktis = None
    /\ query_date = None
    /\ current = None

\* a caller's scan_window up to the loop
SharedStart(c) ==
    /\ scan[c].at = "input"
    /\ scan' = [ scan EXCEPT ![c].locals = BeforeLoop(@),
                             ![c].at = "loop" ]
    /\ UNCHANGED <<pc, lon, result, moon_lon, birth, dasha, bhuktis,
                   query_date, current, provider, chart, events, score>>

\* a caller's calculate_chart puts the observer at its own place
SharedSetTopo(c) ==
    /\ scan[c].at = "loop"
    /\ FloatLeq(scan[c].locals.current_time, scan[c].locals.end_time)
    /\ provider' = [ provider EXCEPT !.topo = scan[c].longitude ]
    /\ scan' = [ scan EXCEPT ![c].at = "topo" ]
    /\ UNCHANGED <<pc, lon, result, moon_lon, birth, dasha, bhuktis,
                   query_date, current, chart, events, score>>

\* the rest of a caller's calculate_chart: the chart of the instant from
\* the provider's answers as they are now
SharedChart(c) ==
    /\ scan[c].at = "topo"
    /\ scan' = [ scan EXCEPT
                   ![c].chart =
                       calculate_chart(
                           ProviderFor(provider, InstantNow(scan[c].locals),
                                       scan[c].longitude),
                           InstantNow(scan[c].locals)),
                   ![c].topo_seen = @ \cup {provider.topo},
                   ![c].at = "chart" ]
    /\ UNCHANGED <<pc, lon, result, moon_lon, birth, dasha, bhuktis,
                   query_date, current, provider, chart, events, score>>

\* the result of scoring a caller's chart, or Failure when building the
\* chart raised
ScoreOf(the_chart, life_events, prov) ==
    IF the_chart = Failure THEN Failure
    ELSE score_candidate(the_chart, life_events, prov)

\* a caller's score_candidate and the end of its iteration
SharedScore(c) ==
    /\ scan[c].at = "chart"
    /\ scan' = [ scan EXCEPT
                   ![c].locals =
                       AfterIteration(
                           @, TestDay(@.current_time), TestTime(@.current_time),
                           scan[c].chart,
                           ScoreOf(scan[c].chart, scan[c].life_events,
                                   ProviderFor(provider, InstantNow(@),
                                               scan[c].longitude))),
                   ![c].topo_seen = @ \cup {provider.topo},
                   ![c].chart = None,
                   ![c].at = "loop" ]
    /\ UNCHANGED <<pc, lon, result, moon_lon, birth, dasha, bhuktis,
                   query_date, current, provider, chart, events, score>>

\* a caller leaves the loop: its candidates are sorted and returned
SharedReturn(c) ==
    /\ scan[c].at = "loop"
    /\ ~FloatLeq(scan[c].locals.current_time, scan[c].locals.end_time)
    /\ scan' = [ scan EXCEPT
                   ![c].locals.candidates = SortByScore(@, << >>),
                   ![c].at = "returned" ]
    /\ UNCHANGED <<pc, lon, result, moon_lon, birth, dasha, bhuktis,
                   query_date, current, provider, chart, events, score>>

NextShared ==
    \E c \in Callers :
        \/ SharedStart(c)
        \/ SharedSetTopo(c)
        \/ SharedChart(c)
        \/ SharedScore(c)
        \/ SharedReturn(c)

SpecShared == InitShared /\ [][NextShared]_vars

(***************************************************************************)
(* Properties of the classification.                                       *)
(***************************************************************************)
\* the start of the arc at 0-based index i, and the start of the arc after
\* it (the last arc runs through 360 to the first arc's start)
ArcStart(i) == IF i = 0 THEN 0 ELSE boundaries[i].boundary

ArcNextStart(i) ==
    IF i < NumSigns - 1 THEN ArcStart(i + 1) ELSE Circle + ArcStart(0)

\* the arcs whose interval [start, nextStart) holds l
ArcsHolding(l) ==
    { i \in 0 .. (NumSigns - 1) : ArcStart(i) <= l /\ l < ArcNextStart(i) }

\* the longitude classified, in [0, 360)
Normalized == lon % Circle

\* C1: a longitude in [0, 360) lies in exactly one interval
\* [start, nextStart), get_constellation returns that arc, and
\* degrees_into_sign is the longitude less the arc's start.
C1_Partition ==
    (pc = "classified" /\ lon \in Longitudes) =>
        /\ Cardinality(ArcsHolding(lon)) = 1
        /\ \A i \in ArcsHolding(lon) :
              /\ result.sign = sign_sequence[i + 1]
              /\ result.degrees_into = (lon - ArcStart(i)) % Circle

C1_Witness ==
    /\ pc = "classified"
    /\ lon = Circle - 1
    /\ result.sign = "Pisces"
    /\ result.degrees_into = Tenths(84) - 1

\* C2: classifying L mod 360 gives the same (arc, status,
\* degrees_into_sign) as classifying L, for L negative, in range or >= 360.
C2_NormalizationIdempotent ==
    pc = "classified" => get_constellation(lon % Circle) = result

C2_Witness ==
    /\ pc = "classified"
    /\ lon = Tenths(2600) - Circle
    /\ result.sign = "Ophiuchus"
    /\ result.degrees_into = Tenths(2600) - Tenths(2471)

\* C3: the status is the band of the least circular distance from the
\* longitude to any of the 13 boundary points, whichever arc holds it.
C3_StatusOfNearestBoundary ==
    pc = "classified" => result.status = TriggerStatus(MinCircDist(Normalized))

\* C4: at every boundary point b and every offset 0 < d <= 0.5 degree, the
\* longitudes b + d and b - d get the same status.
C4_SymmetricAroundBoundaries ==
    pc = "classified" =>
        \A b \in BoundaryPoints :
            (/\ CircDist(Normalized, b) > 0
             /\ CircDist(Normalized, b) <= SOFT_PROXIMITY)
            => result.status = get_constellation(2 * b - Normalized).status

\* the longitudes just below 360, whose nearest boundary point is the seam
BelowSeam == Normalized >= Circle - SOFT_PROXIMITY

Built == pc \in {"built", "bhuktis", "queried"}

\* the total_years of a list of periods, summed
RECURSIVE SumTotalYears(_)
SumTotalYears(list) ==
    IF list = <<>> THEN 0
    ELSE Head(list).total_years + SumTotalYears(Tail(list))

\* the duration_days of a list of bhuktis, summed
RECURSIVE SumDurations(_)
SumDurations(list) ==
    IF list = <<>> THEN 0
    ELSE Head(list).duration_days + SumDurations(Tail(list))

\* the width of the interval of longitudes that get_constellation
\* classifies into the sign at 1-based index k
ArcLength(k) ==
    Cardinality({ l \in Longitudes :
                    get_constellation(l).sign = sign_sequence[k] })

RECURSIVE SumArcLengths(_)
SumArcLengths(k) == IF k = 0 THEN 0 ELSE ArcLength(k) + SumArcLengths(k - 1)

\* C6: the durations of the 13 top-level periods sum to 120 years.
C6_YearsSumTo120 ==
    Built => /\ SumTotalYears(dasha.sequence) = 1200
             /\ total_arc = 1200

\* C7: each top-level period lasts (arcLength / 360) x 120 years, to the
\* precision of the table (half a tenth of a year), where arcLength is the
\* width of the interval classified into the period's arc, and the 13
\* widths sum to 360 degrees.
C7_YearsProportionalToArc ==
    Built =>
        /\ \A k \in 1 .. Len(dasha.sequence) :
              2 * Abs(dasha.sequence[k].total_years * Circle
                        - ArcLength(IndexOf(dasha.sequence[k].lord) + 1) * 1200)
                  <= Circle
        /\ SumArcLengths(NumSigns) = Circle

\* the rounding of the model: a minute for each sub-period
Tolerance == NumSigns

\* C8: the 13 sub-periods of a top-level period have durations that sum to
\* the period's duration: the last one ends at the period's end and none
\* ends after it (to the rounding of the model).
C8_BhuktisFillThePeriod ==
    pc = "bhuktis" =>
        LET period == dasha.sequence[bhuktis.period]
            list   == bhuktis.list
        IN  /\ Len(list) = 13
            /\ Abs(SumDurations(list) - YearsDelta(period.total_years))
                  <= Tolerance
            /\ Abs(list[Len(list)].end - period.end) <= Tolerance
            /\ \A k \in 1 .. Len(list) : list[k].end <= period.end + Tolerance

\* the 0-based index of the arc holding the Moon
MoonArc == CHOOSE i \in ArcsHolding(moon_lon) : TRUE

\* C9: the timeline has 13 top-level periods, their lords are the 13 arcs
\* in ecliptic order starting at the Moon's arc, and each period starts
\* where the one before it ends.
C9_ThirteenContiguousPeriods ==
    Built =>
        LET sequence == dasha.sequence
        IN  /\ Len(sequence) = 13
            /\ \A k \in 1 .. Len(sequence) :
                  /\ sequence[k].lord
                        = sign_sequence[((MoonArc + k - 1) % NumSigns) + 1]
                  /\ sequence[k].start < sequence[k].end
            /\ \A k \in 1 .. (Len(sequence) - 1) :
                  sequence[k + 1].start = sequence[k].end

C9_Witness ==
    /\ pc = "built"
    /\ moon_lon = Tenths(2601)
    /\ dasha.sequence[1].lord = "Ophiuchus"
    /\ dasha.sequence[5].lord = "Pisces"
    /\ dasha.sequence[6].lord = "Aries"
    /\ dasha.sequence[6].start = dasha.sequence[5].end
    /\ dasha.sequence[13].lord = "Scorpius"

\* C10: the last top-level period ends at least 120 years after birth, and
\* every instant in [birth, birth + 120 years) has an active period.
C10_SpansFullCycle ==
    /\ Built => dasha.sequence[Len(dasha.sequence)].end >= birth + FullCycle
    /\ (pc = "queried" /\ birth <= query_date
                       /\ query_date < birth + FullCycle)
          => current.status = "active"

PeriodsAtQuery ==
    { k \in 1 .. Len(dasha.sequence) :
        /\ dasha.sequence[k].start <= query_date
        /\ query_date < dasha.sequence[k].end }

\* the answer names no period
NoPeriod ==
    /\ "maha_dasha" \notin DOMAIN current
    /\ "bhukti" \notin DOMAIN current

\* what get_current_dasha answers when a period holds the date: the first
\* such period, active
ActiveWithFirstPeriod ==
    \E k \in PeriodsAtQuery :
        /\ \A j \in PeriodsAtQuery : k <= j
        /\ current.status = "active"
        /\ current.maha_dasha = dasha.sequence[k]

Charted == pc = "charted"

\* the chart has an Ascendant
HasAscendant == Charted /\ "Ascendant" \in DOMAIN chart.angles

\* the houses of the chart ruled by a sign
HousesRuledBy(sign) ==
    { k \in 1 .. Len(chart.houses) : chart.houses[k].ruling_sign = sign }

\* C13: when the Ascendant is available there are 13 houses, numbered
\* 1..13, house k ruling the arc at index (ascendantArcIndex + k - 1) mod
\* 13; every arc rules exactly one house and house 1 rules the Ascendant's
\* arc.
C13_ThirteenHouses ==
    HasAscendant =>
        LET asc_index == IndexOf(chart.angles["Ascendant"].sign)
        IN  /\ chart.houses[1].ruling_sign = chart.angles["Ascendant"].sign
            /\ \A k \in 1 .. Len(chart.houses) :
                  /\ chart.houses[k].house_number = k
                  /\ chart.houses[k].ruling_sign
                        = sign_sequence[((asc_index + k - 1) % 13) + 1]
            /\ Len(chart.houses) = 13
            /\ \A i \in 1 .. NumSigns :
                  Cardinality(HousesRuledBy(sign_sequence[i])) = 1

\* C14: every body of a chart with houses is assigned the house whose
\* span holds its longitude: the assigned house's ruling arc is the arc
\* get_constellation returned for the body.
C14_HouseRulesTheBodysArc ==
    HasAscendant =>
        \A p \in DOMAIN chart.luminosities :
            chart.houses[chart.luminosities[p].house].ruling_sign
                = chart.luminosities[p].sign

\* the provider failed for some body, and answered for the angles
BodyFailed ==
    /\ Charted
    /\ \E p \in PlanetNames : provider.calc_ut[p] = Failure
    /\ provider.houses_ex # Failure

\* a placement less its house
WithoutHouse(planet_data) ==
    [ f \in DOMAIN planet_data \ {"house"} |-> planet_data[f] ]

\* every body the provider answered for is placed from that answer, Ketu
\* is placed exactly when Rahu's call succeeded, and no other body is
PlacementsOfSucceeded ==
    /\ DOMAIN chart.luminosities
          = { p \in PlanetNames : provider.calc_ut[p] # Failure }
              \cup (IF provider.calc_ut["Rahu"] # Failure
                    THEN {"Ketu"} ELSE {})
    /\ \A p \in DOMAIN chart.luminosities \ {"Ketu"} :
          WithoutHouse(chart.luminosities[p])
              = Placement(provider.calc_ut[p])

\* the angles and the houses are those of the provider's answer for the
\* angles, and every body placed has a house number
AnglesAndHousesAsUsual ==
    /\ DOMAIN chart.angles = {"Ascendant", "MC"}
    /\ chart.angles["Ascendant"].longitude = provider.houses_ex.ascendant
    /\ chart.angles["MC"].longitude = provider.houses_ex.mc
    /\ chart.houses
          = calculate_houses(
                get_constellation(provider.houses_ex.ascendant).sign,
                provider.houses_ex.ascendant)
    /\ \A p \in DOMAIN chart.luminosities :
          "house" \in DOMAIN chart.luminosities[p]

\* the chart has a timeline
HasTimeline ==
    /\ "sequence" \in DOMAIN chart.dasha
    /\ Len(chart.dasha.sequence) = 13

\* C15 as claimed: when the provider fails for a body, every other body
\* that succeeded is placed (Ketu exactly when Rahu succeeded), and the
\* angles, the houses and the timeline are computed as usual.
C15_OnlyTheFailedBodyIsMissing ==
    BodyFailed =>
        /\ PlacementsOfSucceeded
        /\ AnglesAndHousesAsUsual
        /\ HasTimeline

\* C15 amended: when the provider fails for a body, every other body that
\* succeeded is placed (Ketu exactly when Rahu succeeded) and the angles
\* and the houses are computed as usual; the timeline is computed as
\* usual, from the Moon's longitude, when the Moon's call succeeded, and
\* is left empty when the Moon's call failed.
C15_TimelineNeedsTheMoon ==
    BodyFailed =>
        /\ PlacementsOfSucceeded
        /\ AnglesAndHousesAsUsual
        /\ IF provider.calc_ut["Moon"] # Failure
           THEN /\ HasTimeline
                /\ chart.dasha
                     = calculate_birth_dasha(
                           provider.calc_ut["Moon"].longitude, birth)
           ELSE chart.dasha = EmptyDict

C15_Witness ==
    /\ BodyFailed
    /\ provider.calc_ut["Rahu"] = Failure
    /\ DOMAIN chart.luminosities = PlanetNames \ {"Rahu"}
    /\ HasTimeline
    /\ Len(chart.houses) = NumHouses

\* C16: when the angles lookup fails the chart has no houses and no body
\* has a house value, while every body the provider answered for is
\* placed and the timeline is present (all the bodies and the timeline,
\* when no body's call failed).
C16_NoAnglesNoHouses ==
    (Charted /\ provider.houses_ex = Failure) =>
        /\ chart.angles = EmptyDict
        /\ chart.houses = << >>
        /\ \A p \in DOMAIN chart.luminosities :
              "house" \notin DOMAIN chart.luminosities[p]
        /\ PlacementsOfSucceeded
        /\ provider.calc_ut["Moon"] # Failure =>
              /\ HasTimeline
              /\ chart.dasha
                   = calculate_birth_dasha(
                         provider.calc_ut["Moon"].longitude, birth)
        /\ (\A p \in PlanetNames : provider.calc_ut[p] # Failure) =>
              DOMAIN chart.luminosities = PlanetNames \cup {"Ketu"}

C16_Witness ==
    /\ Charted
    /\ provider.houses_ex = Failure
    /\ \A p \in PlanetNames : provider.calc_ut[p] # Failure
    /\ chart.houses = << >>
    /\ DOMAIN chart.luminosities = PlanetNames \cup {"Ketu"}
    /\ HasTimeline

(***************************************************************************)
(* Properties of score_candidate.                                          *)
(***************************************************************************)
\* the bodies of a chart with a trigger_status
BodiesWithStatus(natal_chart, status) ==
    { p \in DOMAIN natal_chart.luminosities :
        natal_chart.luminosities[p].trigger_status = status }

\* the natal-only contribution of a chart: 8 for each body at
\* HARD_TRIGGER, 4 for each at SOFT_PROXIMITY, 20 if Mercury's arc is
\* Ophiuchus, 15 if the Sun is at HARD_TRIGGER or SOFT_PROXIMITY, and 12 if
\* the Moon is
NatalContribution(natal_chart) ==
    LET at_boundary == BodiesWithStatus(natal_chart, "HARD_TRIGGER")
                         \cup BodiesWithStatus(natal_chart, "SOFT_PROXIMITY")
    IN  8 * Cardinality(BodiesWithStatus(natal_chart, "HARD_TRIGGER"))
          + 4 * Cardinality(BodiesWithStatus(natal_chart, "SOFT_PROXIMITY"))
          + (IF \E p \in DOMAIN natal_chart.luminosities :
                   p = "Mercury"
                     /\ natal_chart.luminosities[p].sign = "Ophiuchus"
             THEN 20 ELSE 0)
          + (IF "Sun" \in at_boundary THEN 15 ELSE 0)
          + (IF "Moon" \in at_boundary THEN 12 ELSE 0)

\* the scores of a list of event matches, summed
RECURSIVE SumScores(_)
SumScores(matches) ==
    IF matches = << >> THEN 0
    ELSE Head(matches).score + SumScores(Tail(matches))

\* score_candidate has returned a result
Scored == pc = "scored" /\ score # Failure

\* C19: the total_score score_candidate returns is the sum of the five
\* buckets of the breakdown, and is the natal contribution plus the sum of
\* the scores recorded in event_matches, one for each event.
C19_TotalIsSumOfBuckets ==
    Scored =>
        /\ score.total_score
              = score.breakdown.dasha_correlation
                  + score.breakdown.event_type_match
                  + score.breakdown.natal_boundaries
                  + score.breakdown.transit_boundaries
                  + score.breakdown.special_patterns
        /\ score.total_score
              = NatalContribution(chart) + SumScores(score.event_matches)
        /\ Len(score.event_matches) = Len(events)

C19_Witness ==
    /\ Scored
    /\ Len(events) = 2
    /\ score.breakdown.dasha_correlation = 23
    /\ score.breakdown.event_type_match > 0
    /\ score.breakdown.natal_boundaries > 0
    /\ score.breakdown.transit_boundaries > 0
    /\ score.breakdown.special_patterns > 0
    /\ score.event_matches[1].score > 0
    /\ score.event_matches[2].score > 0

(***************************************************************************)
(* Properties of scan_window.                                              *)
(***************************************************************************)
\* scan_window has returned
Scanned == pc = "scanned"

\* a whole number of half hours, in minutes
MinutesOf(half_hours) ==
    (IF half_hours.neg THEN 0 - 1 ELSE 1) * (half_hours.hi \div (HourHi \div 2)) * 30

\* the instants approx - window, approx - window + step, ... up to and
\* including approx + window, in minutes
InstantsToScan ==
    LET approx == MinutesOf(scan.approx_time_utc)
        window == MinutesOf(scan.window_hours)
    IN  { approx - window + k * scan.step_minutes :
            k \in 0 .. ((2 * window) \div scan.step_minutes) }

\* the instants of the candidates
InstantsOfCandidates ==
    { InstantOf(scan.candidates[k].date, scan.candidates[k].time_utc) :
        k \in 1 .. Len(scan.candidates) }

\* no provider call fails, and no event lacks its date
NothingFails ==
    /\ provider.failing = {}
    /\ \A k \in 1 .. Len(events) : "date" \in DOMAIN events[k]

\* C17: with no provider failures and whole minutes for window and step,
\* the scan has exactly one candidate for each of the instants
\* approx - window, approx - window + step, ... up to and including
\* approx + window (7 for a 1-hour span at 10-minute steps), and with no
\* events every candidate's dasha_correlation and event_type_match are 0.
C17_OneCandidatePerInstant ==
    (Scanned /\ NothingFails) =>
        /\ InstantsOfCandidates = InstantsToScan
        /\ Len(scan.candidates) = Cardinality(InstantsToScan)
        /\ (scan.window_hours = HalfHours(1) /\ scan.step_minutes = 10)
              => Len(scan.candidates) = 7
        /\ events = << >> =>
              \A k \in 1 .. Len(scan.candidates) :
                  /\ scan.candidates[k].scoring_breakdown.dasha_correlation = 0
                  /\ scan.candidates[k].scoring_breakdown.event_type_match = 0

\* C18: the list scan_window returns is ordered by score, highest first,
\* and of two candidates with the same score the one scanned first, the
\* earlier instant, comes first.
C18_SortedByScoreStable ==
    Scanned =>
        \A i, j \in 1 .. Len(scan.candidates) :
            i < j =>
                /\ scan.candidates[i].score >= scan.candidates[j].score
                /\ scan.candidates[i].score = scan.candidates[j].score
                      => InstantOf(scan.candidates[i].date,
                                   scan.candidates[i].time_utc)
                           < InstantOf(scan.candidates[j].date,
                                       scan.candidates[j].time_utc)

C18_Witness ==
    /\ Scanned
    /\ Len(scan.candidates) >= 7
    /\ scan.candidates[1].score > scan.candidates[2].score
    /\ scan.candidates[2].score = scan.candidates[3].score
    /\ InstantOf(scan.candidates[1].date, scan.candidates[1].time_utc)
          > InstantOf(scan.candidates[2].date, scan.candidates[2].time_utc)
    /\ scan.candidates[3].score
          > scan.candidates[Len(scan.candidates)].score

\* C20: with no events every candidate's score is the natal-only
\* contribution of its chart (8 for each body at HARD_TRIGGER, 4 for each
\* at SOFT_PROXIMITY, 20 if Mercury's arc is Ophiuchus, 15 if the Sun is at
\* HARD_TRIGGER or SOFT_PROXIMITY, 12 if the Moon is), no iteration of the
\* scan raises, and the scan returns the list ranked.
C20_NatalOnlyScore ==
    (pc \in {"scanning", "scanned"} /\ events = << >>) =>
        /\ score # Failure
        /\ \A k \in 1 .. Len(scan.candidates) :
              /\ scan.candidates[k].score
                    = NatalContribution(scan.candidates[k].chart)
              /\ scan.candidates[k].event_matches = << >>
        /\ scan.scan_count = Len(scan.candidates)
        /\ Scanned =>
              \A k \in 1 .. Len(scan.candidates) - 1 :
                  scan.candidates[k].score >= scan.candidates[k + 1].score

C20_Witness ==
    /\ Scanned
    /\ events = << >>
    /\ \E k \in 1 .. Len(scan.candidates) :
          /\ scan.candidates[k].score = 8 + 15
          /\ scan.candidates[k].chart.luminosities["Sun"].trigger_status
                = "HARD_TRIGGER"
    /\ \E k \in 1 .. Len(scan.candidates) :
          /\ scan.candidates[k].score = 4 + 15
          /\ scan.candidates[k].chart.luminosities["Sun"].trigger_status
                = "SOFT_PROXIMITY"
    /\ \E k \in 1 .. Len(scan.candidates) : scan.candidates[k].score = 0

(***************************************************************************)
(* Properties of the scan's failure handling.                              *)
(***************************************************************************)
\* the events of the list that have a date
DatedEvents == { k \in 1 .. Len(events) : "date" \in DOMAIN events[k] }

\* the last iteration of the scan raised: its candidate was not appended
IterationRaised == pc \in {"scanning", "scanned"} /\ score = Failure

\* an iteration of the scan has ended
IterationEnded == pc \in {"scanning", "scanned"} /\ score # None

\* C21: an event with no 'date' is skipped on its own: in every iteration
\* of the scan the remaining events are scored, one match for each dated
\* event, and the candidate of the instant is appended, none is dropped.
C21_DatelessEventSkipped ==
    (IterationEnded /\ provider.failing = {}
        /\ DatedEvents # 1 .. Len(events)) =>
        /\ ~IterationRaised
        /\ Len(score.event_matches) = Cardinality(DatedEvents)
        /\ scan.scan_count = Len(scan.candidates)
        /\ Len(scan.candidates) > 0

\* C22: a provider failure for a single body, the Moon included, with a
\* list of dated events that is not empty, drops no candidate: every
\* iteration of the scan appends the candidate of its instant.
C22_BodyFailureKeepsCandidates ==
    (IterationEnded /\ Cardinality(provider.failing) <= 1
        /\ events # << >> /\ DatedEvents = 1 .. Len(events)) =>
        /\ ~IterationRaised
        /\ scan.scan_count = Len(scan.candidates)
        /\ Len(scan.candidates) > 0

(***************************************************************************)
(* Properties of the scoring of an event.                                  *)
(***************************************************************************)
\* the transiting bodies at HARD_TRIGGER within 1 degree of the natal
\* Ascendant
TransitsHittingAscendant ==
    { p \in PlanetNames :
        /\ provider.transits[p] # Failure
        /\ get_constellation(provider.transits[p].longitude).status
              = "HARD_TRIGGER"
        /\ CircDist(provider.transits[p].longitude,
                    chart.angles["Ascendant"].longitude) < Tenths(10) }

\* the matches of a score whose notes hold a note
MatchesNoting(note) ==
    { k \in 1 .. Len(score.event_matches) :
        \E n \in 1 .. Len(score.event_matches[k].notes) :
            score.event_matches[k].notes[n] = note }

\* C24: when a transiting body at HARD_TRIGGER is within 1 degree of the
\* natal Ascendant, every event's score has 18 added for it, once, and so
\* has the special_patterns bucket.
C24_AscendantHitAdds18 ==
    (Scored /\ "Ascendant" \in DOMAIN chart.angles
        /\ \A p \in PlanetNames : provider.transits[p] # Failure) =>
        IF TransitsHittingAscendant # {}
        THEN /\ MatchesNoting("Transit conjunct Ascendant")
                   = 1 .. Len(events)
             /\ score.breakdown.special_patterns
                   = NatalScore(chart).special_patterns + 18 * Len(events)
        ELSE /\ MatchesNoting("Transit conjunct Ascendant") = {}
             /\ score.breakdown.special_patterns
                   = NatalScore(chart).special_patterns

\* the transit triggers of the bodies from the i-th on that the provider
\* answers for, a body it fails for being passed over
RECURSIVE TransitsOfAnswered(_, _, _, _)
TransitsOfAnswered(answers, natal_chart, triggers, i) ==
    IF i > Len(planets) THEN triggers
    ELSE TransitsOfAnswered(answers, natal_chart,
             IF answers[planets[i]] = Failure THEN triggers
             ELSE TransitOf(planets[i], answers[planets[i]], natal_chart,
                            triggers),
             i + 1)

\* the transit triggers of every body the provider answers for
AllTransits ==
    TransitsOfAnswered(provider.transits, chart,
        [ hard |-> << >>, soft |-> << >>, conjunctions |-> << >> ], 1)

\* C25: when the provider fails for one transiting body, only that body's
\* contribution is left out: the hard and soft triggers of every other
\* body are scored for every event, and every event is scored.
C25_OnlyTheFailedTransitIsSkipped ==
    Scored =>
        /\ Len(score.event_matches) = Len(events)
        /\ score.breakdown.transit_boundaries
              = Len(events) * (6 * Len(AllTransits.hard)
                                 + 3 * Len(AllTransits.soft))
        /\ Len(score.triggers.transit_hard)
              = Len(events) * Len(AllTransits.hard)
        /\ Len(score.triggers.transit_soft)
              = Len(events) * Len(AllTransits.soft)

(***************************************************************************)
(* Properties of the placements.                                           *)
(***************************************************************************)
\* a placement's sign, trigger_status and degrees_into_sign are those of
\* its own longitude
ClassifiedByOwnLongitude(planet_data) ==
    LET constellation == get_constellation(planet_data.longitude)
    IN  /\ planet_data.sign = constellation.sign
        /\ planet_data.trigger_status = constellation.status
        /\ planet_data.degrees_into_sign = constellation.degrees_into

NoteCount(k, note) ==
    Cardinality({ n \in 1 .. Len(score.event_matches[k].notes) :
                    score.event_matches[k].notes[n] = note })

\* the period-start and event-type bonuses awarded to the k-th event
StartAndTypeBonuses(k) ==
    10 * NoteCount(k, "Maha Dasha transition")
      + 10 * NoteCount(k, "Bhukti transition")
      + 5 * NoteCount(k, "Maha lord matches event type")
      + 5 * NoteCount(k, "Bhukti lord matches event type")

\* the intensity of the k-th event
IntensityOf(k) ==
    IF "intensity" \in DOMAIN events[k] THEN events[k].intensity ELSE 5

\* C27: 3 is added to an event's score for its intensity exactly when the
\* intensity is at least 8, the event's date is in an active period and a
\* period-start or event-type bonus was awarded to the event; it is added
\* at most once, and transit triggers alone never bring it.
C27_IntensityBonus ==
    Scored =>
        \A k \in 1 .. Len(score.event_matches) :
            /\ NoteCount(k, "High intensity event (bonus)") \in {0, 1}
            /\ NoteCount(k, "High intensity event (bonus)") = 1
                  <=> /\ IntensityOf(k) >= 8
                      /\ score.event_matches[k].dasha # None
                      /\ StartAndTypeBonuses(k) > 0
            /\ score.event_matches[k].score
                  = StartAndTypeBonuses(k)
                      + 3 * NoteCount(k, "High intensity event (bonus)")
                      + 6 * NoteCount(k, "Transit HARD")
                      + 3 * NoteCount(k, "Transit SOFT")
                      + 18 * NoteCount(k, "Transit conjunct Ascendant")
            /\ score.event_matches[k].dasha = None
                  => StartAndTypeBonuses(k) = 0

C27_Witness ==
    /\ Scored
    /\ Len(score.event_matches) = 2
    /\ IntensityOf(1) >= 8
    /\ StartAndTypeBonuses(1) > 0
    /\ NoteCount(1, "High intensity event (bonus)") = 1
    /\ NoteCount(1, "Transit HARD") > 0
    /\ IntensityOf(2) < 8
    /\ score.event_matches[2].dasha # None
    /\ StartAndTypeBonuses(2) > 0
    /\ NoteCount(2, "High intensity event (bonus)") = 0

\* C29: whenever an event has the 10 of the Maha Dasha start it has the 10
\* of the Bhukti start as well: the two together add 0, 10 (the Bhukti's
\* alone) or 20 to an event, and the Maha Dasha's 10 is given exactly to
\* the events of an active period within 30 days of its start.
C29_MahaStartBringsBhuktiStart ==
    Scored =>
        \A k \in 1 .. Len(score.event_matches) :
            /\ NoteCount(k, "Maha Dasha transition") \in {0, 1}
            /\ NoteCount(k, "Bhukti transition") \in {0, 1}
            /\ NoteCount(k, "Maha Dasha transition")
                  <= NoteCount(k, "Bhukti transition")
            /\ NoteCount(k, "Maha Dasha transition") = 1
                  <=> /\ score.event_matches[k].dasha # None
                      /\ NearStart(events[k].date,
                             score.event_matches[k].dasha.maha_dasha.start)
            /\ score.event_matches[k].dasha # None =>
                  score.event_matches[k].dasha.maha_dasha.start
                      <= score.event_matches[k].dasha.bhukti.start

C29_Witness ==
    /\ Scored
    /\ Len(score.event_matches) = 2
    /\ NoteCount(1, "Maha Dasha transition") = 1
    /\ NoteCount(1, "Bhukti transition") = 1
    /\ events[1].date > score.event_matches[1].dasha.maha_dasha.start
    /\ score.event_matches[2].dasha # None
    /\ NoteCount(2, "Maha Dasha transition") = 0
    /\ NoteCount(2, "Bhukti transition") = 0

(***************************************************************************)
(* Properties of the Bhukti of a date.                                     *)
(***************************************************************************)
\* the Bhuktis of the Maha Dasha current at the date asked for
BhuktisOfCurrent ==
    calculate_proportional_bhuktis(current.maha_dasha.lord,
                                   current.maha_dasha.start,
                                   current.maha_dasha.total_years)

\* C28: when get_current_dasha answers 'active' its bhukti is a Bhukti
\* that holds the date, start <= date < end: the 13 Bhuktis run one after
\* the other from the Maha Dasha's start to its end or beyond, so no date
\* of the Maha Dasha is left without a Bhukti.
C28_ActiveHasBhukti ==
    (pc = "queried" /\ current.status = "active") =>
        /\ current.bhukti # None
        /\ current.bhukti.start <= query_date
        /\ query_date < current.bhukti.end
        /\ current.maha_dasha.start <= query_date
        /\ query_date < current.maha_dasha.end
        /\ Len(BhuktisOfCurrent) = 13
        /\ BhuktisOfCurrent[1].start = current.maha_dasha.start
        /\ \A k \in 1 .. 12 :
              BhuktisOfCurrent[k].end = BhuktisOfCurrent[k + 1].start
        /\ BhuktisOfCurrent[13].end >= current.maha_dasha.end
        /\ \E k \in 1 .. 13 : current.bhukti = BhuktisOfCurrent[k]

C28_Witness ==
    /\ pc = "queried"
    /\ current.status = "active"
    /\ query_date = current.maha_dasha.end - 1
    /\ current.maha_dasha.start > birth
    /\ current.bhukti # None
    /\ current.bhukti.start > current.maha_dasha.start
    /\ current.bhukti.end > current.maha_dasha.end

(***************************************************************************)
(* Properties of the scanned instants.                                     *)
(***************************************************************************)
\* C30: every candidate's time_utc is in [0, 24), and its date and
\* time_utc together are one of the instants scanned, counted from
\* birth_date's midnight.
C30_TimeWithinTheDay ==
    pc \in {"scanning", "scanned"} =>
        \A k \in 1 .. Len(scan.candidates) :
            /\ ~scan.candidates[k].time_utc.neg
            /\ FloatLess(scan.candidates[k].time_utc, HalfHours(48))
            /\ InstantOf(scan.candidates[k].date,
                         scan.candidates[k].time_utc) \in InstantsToScan

\* the locals of a scan after one iteration with nobody else on the
\* provider: the observer is where the scan's own calculate_chart put it
ScoredAlone(locals, answers, the_chart, life_events) ==
    AfterIteration(locals, TestDay(locals.current_time),
                   TestTime(locals.current_time), the_chart,
                   ScoreOf(the_chart, life_events, answers))

ChartedAlone(locals, answers, instant, life_events) ==
    ScoredAlone(locals, answers, calculate_chart(answers, instant),
                life_events)

IterationAlone(locals, prov, longitude, life_events) ==
    ChartedAlone(locals,
                 ProviderFor([ prov EXCEPT !.topo = longitude ],
                             InstantNow(locals), longitude),
                 InstantNow(locals), life_events)

\* the list scan_window returns when it runs alone from the locals
RECURSIVE ScanAlone(_, _, _, _)
ScanAlone(locals, prov, longitude, life_events) ==
    IF FloatLeq(locals.current_time, locals.end_time)
    THEN ScanAlone(IterationAlone(locals, prov, longitude, life_events),
                   prov, longitude, life_events)
    ELSE SortByScore(locals.candidates, << >>)

\* the candidates of one iteration alone at a candidate's instant: the
\* scan that has nothing before it and nothing after it
AloneAt(candidate, locals, prov, longitude, life_events) ==
    IterationAlone([ locals EXCEPT
                       !.candidates = << >>,
                       !.current_time =
                           IF candidate.date < 0
                           THEN FloatSub(candidate.time_utc, HalfHours(48))
                           ELSE IF candidate.date > 0
                           THEN FloatAdd(candidate.time_utc, HalfHours(48))
                           ELSE candidate.time_utc ],
                   prov, longitude, life_events).candidates

====
